---------------------------- MODULE Spec2Model ----------------------------
(***************************************************************************)
(* The email dispatch pipeline of nextinbox (src/main.go, lines 1-405):    *)
(* SendEmailsHandler fans one request out to one goroutine per recipient,  *)
(* each running sendSingleEmail against the data store (profile, services, *)
(* templates, logs, emails tables) and the SMTP transport, and aggregates  *)
(* the errors into one response.  Every data-store call and the SMTP send  *)
(* is one atomic step; the local computation that follows a call (checks,  *)
(* early returns) belongs to the same step.                                *)
(***************************************************************************)
EXTENDS Integers, Sequences, FiniteSets, TLC

\* ------------------------------------------------------------- bounds
\* Longest recipient list of the request.
MaxRecipients == 2
\* Largest rate_limit a profile starts with (the smallest is -1).
MaxInitQuota == 1
\* How often the scheduled reset_rate_limit() job may run during the request.
MaxResets == 1

\* ---------------------------------------------------- program constants
\* reset_rate_limit(): SET rate_limit = 300 WHERE rate_limit < 300.
ResetQuota == 300

\* ------------------------------------------------------- the data store
Users == {"u1", "u2"}

\* profile rows: user_key -> user_id (user_key is UNIQUE).
ProfileByKey == [k \in {"k1", "k2"} |-> IF k = "k1" THEN "u1" ELSE "u2"]

\* Request user keys: one that resolves to u1 and one no profile holds.
UserKeys == {"k1", "kx"}

Addresses == {"a", "b"}

\* A parsed URL (net/url.Parse): ok = no parse error, Scheme, Hostname() as
\* a sequence of characters.
Url(ok, scheme, host) == [ok |-> ok, scheme |-> scheme, host |-> host]

\* services rows.  cors is the cors_origin column after strings.Split on ","
\* and TrimSpace and url.Parse of each entry; << >> is the empty string.
ServiceRows ==
  [s \in {"s1", "s2"} |->
     IF s = "s1"
       THEN [user_id |-> "u1",
             cors |-> << Url(FALSE, "", << >>), Url(TRUE, "https", <<"a">>) >>]
       ELSE [user_id |-> "u2", cors |-> << >>]]

ServiceIDs == {"s1", "s2"}

\* templates rows.  parses: template.Parse accepts the content; usesDate: the
\* content applies formatDate to .params.date, so Execute fails unless the
\* parameter is a time.Time.
TemplateRows ==
  [t \in {"t1", "t2", "t3"} |->
     CASE t = "t1" -> [user_id |-> "u1", parses |-> TRUE,  usesDate |-> TRUE]
       [] t = "t2" -> [user_id |-> "u2", parses |-> TRUE,  usesDate |-> FALSE]
       [] t = "t3" -> [user_id |-> "u1", parses |-> FALSE, usesDate |-> FALSE]]

TemplateIDs == {"t1", "t2", "t3"}

\* Origin header values of the request, as url.Parse sees them.
Origins ==
  { Url(TRUE, "https", <<"p", ".", "a">>),      \* a subdomain of a
    Url(TRUE, "https", <<"a", ".", "e">>),      \* a look-alike superdomain
    Url(FALSE, "", << >>) }                     \* url.Parse fails

\* The "date" entry of req.Parameters: absent, a string that is RFC 3339,
\* a string that is not, or (after the rewrite) a time.Time.
DateParams == {"absent", "rfc3339", "badstring"}

InitQuotas == (0 - 1)..MaxInitQuota

RECURSIVE SeqsUpTo(_, _)
SeqsUpTo(S, n) ==
  IF n = 0 THEN {<< >>}
  ELSE LET shorter == SeqsUpTo(S, n - 1)
       IN  shorter \cup {Append(s, x) : s \in {q \in shorter : Len(q) = n - 1}, x \in S}

RecipientLists == SeqsUpTo(Addresses, MaxRecipients)

\* The request of the quota race has one recipient more than the longest list
\* of the other requests, and its user one send more in the quota.
MaxRaceRecipients == MaxRecipients + 1
RaceQuota == MaxInitQuota + 1

Tasks == 1..MaxRaceRecipients

\* EmailRequest as decoded from the body; parsed = FALSE is a body
\* json.Decode rejects.
Requests ==
  [parsed : {TRUE}, UserKey : UserKeys, ServiceID : ServiceIDs,
   TemplateID : TemplateIDs, Recipients : RecipientLists,
   Origin : Origins]

\* A body json.Decode rejects with a type error is still decoded into req as
\* far as it goes: the fields, recipients included, may all be filled in.
BadRequest ==
  [parsed |-> FALSE, UserKey |-> "k1", ServiceID |-> "s1", TemplateID |-> "t1",
   Recipients |-> << "a", "b" >>, Origin |-> Url(TRUE, "https", <<"p", ".", "a">>)]

\* An emails row; by is the goroutine that inserted it (email_id is a fresh
\* uuid for every insert, and the table has no other unique key).
EmailRow(by, u, addr, tid) ==
  [by |-> by, user_id |-> u, email_address |-> addr, template_id |-> tid]

VARIABLES
  req,          \* the decoded EmailRequest (shared by the goroutines)
  paramDate,    \* req.Parameters["date"], shared and rewritten in place
  rateLimit,    \* profile.rate_limit per user_id
  quota0,       \* rateLimit as it was when the request arrived
  logs,         \* logs table: set of rows [by, status]
  emails,       \* emails table: set of rows EmailRow
  resets,       \* runs of the scheduled reset so far
  hpc,          \* SendEmailsHandler's position
  loopIdx,      \* index of the next recipient the range loop spawns
  wg,           \* sync.WaitGroup counter
  errorChan,    \* buffered channel contents
  chanClosed,   \* close(errorChan) happened
  closerPc,     \* the goroutine running wg.Wait(); close(errorChan)
  response,     \* what the handler wrote: [status, Success, Errors]
  pc,           \* per recipient goroutine: position in sendSingleEmail
  userID,       \* sendSingleEmail's userID
  profiles,     \* sendSingleEmail's profiles slice: the rate_limit rows read
  err,          \* sendSingleEmail's err variable from smtp.SendMail on
  ret,          \* sendSingleEmail's return value
  calls,        \* per goroutine: the calls it made to SMTP and the store
  rawOrigin,    \* origin check alone: the Origin header, a character sequence
  corsOrigin,   \* origin check alone: the service's cors_origin column
  opc,          \* origin check alone: position in lines 200-230
  entryIdx      \* origin check alone: index of the range over allowedOrigins

vars == << req, paramDate, quota0, rateLimit, logs, emails, resets, hpc, loopIdx, wg,
           errorChan, chanClosed, closerPc, response, pc, userID, profiles, err,
           ret, calls, rawOrigin, corsOrigin, opc, entryIdx >>

originVars == << rawOrigin, corsOrigin, opc, entryIdx >>
pipelineVars == << req, paramDate, quota0, rateLimit, logs, emails, resets, hpc, loopIdx, wg,
                   errorChan, chanClosed, closerPc, response, pc, userID, profiles, err,
                   ret, calls >>
storeVars == << rateLimit, logs, emails >>
handlerVars == << hpc, loopIdx, wg, errorChan, chanClosed, closerPc, response >>
taskVars == << pc, userID, profiles, err, ret, calls >>

NoCalls == [smtp |-> << >>, quota |-> << >>, log |-> << >>,
            histSelect |-> 0, histInsert |-> 0]

Init ==
  /\ req \in Requests \cup {BadRequest}
  /\ paramDate \in DateParams
  /\ \E q \in InitQuotas : rateLimit = [u \in Users |-> IF u = "u1" THEN q ELSE ResetQuota]
  /\ quota0 = rateLimit
  /\ logs = {}
  /\ emails = {}
  /\ resets = 0
  /\ hpc = "decode"
  /\ loopIdx = 1
  /\ wg = 0
  /\ errorChan = << >>
  /\ chanClosed = FALSE
  /\ closerPc = "idle"
  /\ response = [status |-> 0, Success |-> FALSE, Errors |-> << >>]
  /\ pc = [t \in Tasks |-> "idle"]
  /\ userID = [t \in Tasks |-> "none"]
  /\ profiles = [t \in Tasks |-> << >>]
  /\ err = [t \in Tasks |-> "nil"]
  /\ ret = [t \in Tasks |-> "none"]
  /\ calls = [t \in Tasks |-> NoCalls]
  /\ rawOrigin = << >>
  /\ corsOrigin = << >>
  /\ opc = "idle"
  /\ entryIdx = 1

\* ------------------------------------------------------ pure helpers
\* strings.HasSuffix on character sequences.
HasSuffix(s, suffix) ==
  /\ Len(suffix) <= Len(s)
  /\ SubSeq(s, Len(s) - Len(suffix) + 1, Len(s)) = suffix

\* The allow-list loop of sendSingleEmail: an empty cors_origin admits; else
\* some entry that parses must have the origin's scheme and a hostname equal
\* to the origin's or such that the origin's ends with "." + hostname.
OriginAllowed(cors, origin) ==
  \/ cors = << >>
  \/ \E i \in 1..Len(cors) :
       /\ cors[i].ok
       /\ cors[i].scheme = origin.scheme
       /\ \/ origin.host = cors[i].host
          \/ HasSuffix(origin.host, <<".">> \o cors[i].host)

\* Mutant of QuotaExhausted: only a negative quota rejects.
QuotaExhaustedStrict(limit) == limit < 0

\* The rate-limit admission test: profiles[0].RateLimit <= 0 rejects.
QuotaExhausted(limit) == limit <= 0

\* Mutant of DecrementedQuota: the send is charged twice.
DecrementedQuotaTwice(limit) == limit - 2

\* The value the pipeline stores after a successful send.
DecrementedQuota(limit) == limit - 1

\* Mutant of LogStatus: the status is never set to "failed".
LogStatusSuccess(e) == "success"

\* The status of the log entry, from the err variable at that point.
LogStatus(e) == IF e # "nil" THEN "failed" ELSE "success"

\* Rows of emails matching (user_id, email_address, template_id).
ExistingEmails(u, addr, tid) ==
  {r \in emails : r.user_id = u /\ r.email_address = addr /\ r.template_id = tid}

\* The recipient a goroutine was started for.
Recipient(t) == req.Recipients[t]

\* Mutant of SendError: the closure reads the loop variable, which holds the
\* last recipient, instead of its own argument.
SendErrorLoopVariable(t) ==
  [to |-> req.Recipients[Len(req.Recipients)], error |-> ret[t]]

\* fmt.Errorf("error sending to %s: %v", rec.EmailAddress, err)
SendError(t) == [to |-> Recipient(t), error |-> ret[t]]

\* sendSingleEmail returns e: the goroutine goes on to its error handling.
Return(t, e) ==
  /\ ret' = [ret EXCEPT ![t] = e]
  /\ pc' = [pc EXCEPT ![t] = "returned"]

Goto(t, label) ==
  /\ pc' = [pc EXCEPT ![t] = label]
  /\ ret' = ret

\* ------------------------------------------------- SendEmailsHandler
\* Mutant of Decode: the 400 is written but the return after it is missing.
DecodeWithoutReturn ==
  /\ hpc = "decode"
  /\ response' = [status |-> IF req.parsed THEN 0 ELSE 400,
                  Success |-> TRUE, Errors |-> << >>]
  /\ hpc' = "spawn"
  /\ UNCHANGED << originVars, req, quota0, paramDate, storeVars, resets, loopIdx, wg, errorChan,
                  chanClosed, closerPc, taskVars >>

\* json.Decode of the body; a body that does not parse is answered 400.
Decode ==
  /\ hpc = "decode"
  /\ IF req.parsed
       THEN /\ response' = [status |-> 0, Success |-> TRUE, Errors |-> << >>]
            /\ hpc' = "spawn"
       ELSE /\ response' = [status |-> 400, Success |-> FALSE, Errors |-> << >>]
            /\ hpc' = "done"
  /\ UNCHANGED << originVars, req, quota0, paramDate, storeVars, resets, loopIdx, wg, errorChan,
                  chanClosed, closerPc, taskVars >>

\* One iteration of the range loop: wg.Add(1); go func(rec) {...}(recipient).
Spawn ==
  /\ hpc = "spawn"
  /\ loopIdx <= Len(req.Recipients)
  /\ wg' = wg + 1
  /\ pc' = [pc EXCEPT ![loopIdx] = "getUser"]
  /\ loopIdx' = loopIdx + 1
  /\ UNCHANGED << originVars, req, quota0, paramDate, storeVars, resets, hpc, errorChan, chanClosed,
                  closerPc, response, userID, profiles, err, ret, calls >>

\* After the loop: go func() { wg.Wait(); close(errorChan) }().
StartCloser ==
  /\ hpc = "spawn"
  /\ loopIdx > Len(req.Recipients)
  /\ closerPc' = "wait"
  /\ hpc' = "collect"
  /\ UNCHANGED << originVars, req, quota0, paramDate, storeVars, resets, loopIdx, wg, errorChan,
                  chanClosed, response, taskVars >>

\* Mutant of CloserWait: the closer does not wait for the counter.
CloserWithoutWait ==
  /\ closerPc = "wait"
  /\ closerPc' = "close"
  /\ UNCHANGED << originVars, req, quota0, paramDate, storeVars, resets, hpc, loopIdx, wg,
                  errorChan, chanClosed, response, taskVars >>

\* wg.Wait() returns once the counter is zero.
CloserWait ==
  /\ closerPc = "wait"
  /\ wg = 0
  /\ closerPc' = "close"
  /\ UNCHANGED << originVars, req, quota0, paramDate, storeVars, resets, hpc, loopIdx, wg, errorChan,
                  chanClosed, response, taskVars >>

\* close(errorChan).
CloserClose ==
  /\ closerPc = "close"
  /\ chanClosed' = TRUE
  /\ closerPc' = "done"
  /\ UNCHANGED << originVars, req, quota0, paramDate, storeVars, resets, hpc, loopIdx, wg, errorChan,
                  response, taskVars >>

\* Mutant of Collect: the error is appended but Success stays true.
CollectKeepsSuccess ==
  /\ hpc = "collect"
  /\ errorChan # << >>
  /\ response' = [response EXCEPT !.Errors = Append(@, Head(errorChan))]
  /\ errorChan' = Tail(errorChan)
  /\ UNCHANGED << originVars, req, quota0, paramDate, storeVars, resets, hpc, loopIdx, wg,
                  chanClosed, closerPc, taskVars >>

\* for err := range errorChan: one received error.
Collect ==
  /\ hpc = "collect"
  /\ errorChan # << >>
  /\ response' = [response EXCEPT !.Success = FALSE,
                                  !.Errors = Append(@, Head(errorChan))]
  /\ errorChan' = Tail(errorChan)
  /\ UNCHANGED << originVars, req, quota0, paramDate, storeVars, resets, hpc, loopIdx, wg, chanClosed,
                  closerPc, taskVars >>

\* Mutant of Respond: a request with failed recipients is answered 500.
RespondStatusByOutcome ==
  /\ hpc = "collect"
  /\ errorChan = << >>
  /\ chanClosed
  /\ response' = [response EXCEPT !.status = IF response.Success THEN 200 ELSE 500]
  /\ hpc' = "done"
  /\ UNCHANGED << originVars, req, quota0, paramDate, storeVars, resets, loopIdx, wg, errorChan,
                  chanClosed, closerPc, taskVars >>

\* The range loop ends on the closed, drained channel; the response is encoded.
Respond ==
  /\ hpc = "collect"
  /\ errorChan = << >>
  /\ chanClosed
  /\ response' = [response EXCEPT !.status = 200]
  /\ hpc' = "done"
  /\ UNCHANGED << originVars, req, quota0, paramDate, storeVars, resets, loopIdx, wg, errorChan,
                  chanClosed, closerPc, taskVars >>

\* --------------------------------------------------- sendSingleEmail
\* Each data-store call and the SMTP send either fails (a backend or
\* transport error) or answers from the tables: ok ranges over BOOLEAN.

\* getUserIDFromKey: select user_id from profile where user_key = req.UserKey.
GetUser(t) ==
  /\ pc[t] = "getUser"
  /\ \E ok \in BOOLEAN :
       IF ok /\ req.UserKey \in DOMAIN ProfileByKey
         THEN /\ userID' = [userID EXCEPT ![t] = ProfileByKey[req.UserKey]]
              /\ Goto(t, "getQuota")
         ELSE /\ Return(t, "invalid user_key")
              /\ userID' = userID
  /\ UNCHANGED << originVars, req, quota0, paramDate, storeVars, resets, handlerVars, profiles, err, calls >>

\* Mutant of GetQuota: the send is charged at admission.
GetQuotaReserves(t) ==
  /\ pc[t] = "getQuota"
  /\ \E ok \in BOOLEAN :
       IF ~ok
         THEN /\ Return(t, "failed to fetch user's rate limit")
              /\ profiles' = profiles
              /\ rateLimit' = rateLimit
         ELSE /\ profiles' = [profiles EXCEPT ![t] = << rateLimit[userID[t]] >>]
              /\ IF QuotaExhausted(rateLimit[userID[t]])
                   THEN Return(t, "rate limit exceeded") /\ rateLimit' = rateLimit
                   ELSE /\ Goto(t, "getService")
                        /\ rateLimit' = [rateLimit EXCEPT ![userID[t]] = @ - 1]
  /\ UNCHANGED << originVars, req, quota0, paramDate, logs, emails, resets, handlerVars, userID,
                  err, calls >>

\* select rate_limit from profile where user_id = userID, then the admission
\* test.
GetQuota(t) ==
  /\ pc[t] = "getQuota"
  /\ \E ok \in BOOLEAN :
       IF ~ok
         THEN /\ Return(t, "failed to fetch user's rate limit")
              /\ profiles' = profiles
         ELSE /\ profiles' = [profiles EXCEPT ![t] = << rateLimit[userID[t]] >>]
              /\ IF QuotaExhausted(rateLimit[userID[t]])
                   THEN Return(t, "rate limit exceeded")
                   ELSE Goto(t, "getService")
  /\ UNCHANGED << originVars, req, quota0, paramDate, storeVars, resets, handlerVars, userID, err, calls >>

\* Mutant of GetService: the select filters on service_id alone.
GetServiceAnyOwner(t) ==
  /\ pc[t] = "getService"
  /\ \E ok \in BOOLEAN :
       IF ~ok
         THEN Return(t, "invalid service_id")
         ELSE IF ~req.Origin.ok
           THEN Return(t, "invalid origin")
           ELSE IF ~OriginAllowed(ServiceRows[req.ServiceID].cors, req.Origin)
             THEN Return(t, "origin not allowed")
             ELSE Goto(t, "dateRead")
  /\ UNCHANGED << originVars, req, quota0, paramDate, storeVars, resets, handlerVars, userID, profiles, err,
                  calls >>

\* select * from services where service_id = req.ServiceID and user_id =
\* userID, then url.Parse of the Origin header and the allow-list check.
GetService(t) ==
  /\ pc[t] = "getService"
  /\ \E ok \in BOOLEAN :
       IF ~ok \/ ServiceRows[req.ServiceID].user_id # userID[t]
         THEN Return(t, "invalid service_id")
         ELSE IF ~req.Origin.ok
           THEN Return(t, "invalid origin")
           ELSE IF ~OriginAllowed(ServiceRows[req.ServiceID].cors, req.Origin)
             THEN Return(t, "origin not allowed")
             ELSE Goto(t, "dateRead")
  /\ UNCHANGED << originVars, req, quota0, paramDate, storeVars, resets, handlerVars, userID, profiles, err,
                  calls >>

\* Mutant of DateRead: a string that is not RFC3339 is passed on unparsed.
DateReadLenient(t) ==
  /\ pc[t] = "dateRead"
  /\ CASE paramDate = "rfc3339" -> Goto(t, "dateWrite")
       [] OTHER                 -> Goto(t, "getTemplate")
  /\ UNCHANGED << originVars, req, quota0, paramDate, storeVars, resets, handlerVars, userID, profiles, err,
                  calls >>

\* rawDate, ok := req.Parameters["date"].(string) and time.Parse(RFC3339).
DateRead(t) ==
  /\ pc[t] = "dateRead"
  /\ CASE paramDate = "badstring" -> Return(t, "invalid date format")
       [] paramDate = "rfc3339"   -> Goto(t, "dateWrite")
       [] OTHER                   -> Goto(t, "getTemplate")
  /\ UNCHANGED << originVars, req, quota0, paramDate, storeVars, resets, handlerVars, userID, profiles, err,
                  calls >>

\* Mutant of DateWrite: the parsed value stays in a local variable.
DateWriteLocalCopy(t) ==
  /\ pc[t] = "dateWrite"
  /\ paramDate' = paramDate
  /\ Goto(t, "getTemplate")
  /\ UNCHANGED << originVars, req, quota0, storeVars, resets, handlerVars, userID, profiles, err, calls >>

\* req.Parameters["date"] = parsedDate.
DateWrite(t) ==
  /\ pc[t] = "dateWrite"
  /\ paramDate' = "time"
  /\ Goto(t, "getTemplate")
  /\ UNCHANGED << originVars, req, quota0, storeVars, resets, handlerVars, userID, profiles, err, calls >>

\* select content, subject from templates where template_id = req.TemplateID
\* and user_id = userID, then template.Parse of the content.
GetTemplate(t) ==
  /\ pc[t] = "getTemplate"
  /\ \E ok \in BOOLEAN :
       IF ~ok \/ TemplateRows[req.TemplateID].user_id # userID[t]
         THEN Return(t, "invalid template_id")
         ELSE IF ~TemplateRows[req.TemplateID].parses
           THEN Return(t, "template parsing error")
           ELSE Goto(t, "execute")
  /\ UNCHANGED << originVars, req, quota0, paramDate, storeVars, resets, handlerVars, userID, profiles, err,
                  calls >>

\* tmpl.Execute over {recipient, params}: reads the shared parameters.
Execute(t) ==
  /\ pc[t] = "execute"
  /\ IF TemplateRows[req.TemplateID].usesDate /\ paramDate # "time"
       THEN Return(t, "template execution error")
       ELSE Goto(t, "smtp")
  /\ UNCHANGED << originVars, req, quota0, paramDate, storeVars, resets, handlerVars, userID, profiles, err,
                  calls >>

\* Mutant of Smtp: a failed send returns at once, without the log entry.
SmtpReturnsOnFailure(t) ==
  /\ pc[t] = "smtp"
  /\ \E ok \in BOOLEAN :
       /\ err' = [err EXCEPT ![t] = IF ok THEN "nil" ELSE "smtp"]
       /\ calls' = [calls EXCEPT ![t].smtp = Append(@, ok)]
       /\ IF ok THEN Goto(t, "updateQuota") ELSE Return(t, "email sending error")
  /\ UNCHANGED << originVars, req, quota0, paramDate, storeVars, resets, handlerVars, userID,
                  profiles >>

\* Mutant of Smtp: a failed first attempt is tried once more.
SmtpRetriesOnce(t) ==
  /\ pc[t] = "smtp"
  /\ \E ok \in BOOLEAN :
       /\ err' = [err EXCEPT ![t] = IF ok THEN "nil" ELSE "smtp"]
       /\ calls' = [calls EXCEPT ![t].smtp = Append(@, ok)]
       /\ Goto(t, IF ok THEN "updateQuota"
                        ELSE IF calls[t].smtp = << >> THEN "smtp" ELSE "logInsert")
  /\ UNCHANGED << originVars, req, quota0, paramDate, storeVars, resets, handlerVars, userID, profiles >>

\* err = smtp.SendMail(...): the one send attempt.
Smtp(t) ==
  /\ pc[t] = "smtp"
  /\ \E ok \in BOOLEAN :
       /\ err' = [err EXCEPT ![t] = IF ok THEN "nil" ELSE "smtp"]
       /\ calls' = [calls EXCEPT ![t].smtp = Append(@, ok)]
       /\ Goto(t, IF ok THEN "updateQuota" ELSE "logInsert")
  /\ UNCHANGED << originVars, req, quota0, paramDate, storeVars, resets, handlerVars, userID, profiles >>

\* if err == nil: err = update profile set rate_limit = RateLimit - 1 where
\* user_id = userID.  The result is assigned to the same err variable.
UpdateQuota(t) ==
  /\ pc[t] = "updateQuota"
  /\ \E ok \in BOOLEAN :
       /\ rateLimit' = IF ok THEN [rateLimit EXCEPT ![userID[t]] = DecrementedQuota(profiles[t][1])]
                             ELSE rateLimit
       /\ err' = [err EXCEPT ![t] = IF ok THEN "nil" ELSE "update"]
       /\ calls' = [calls EXCEPT ![t].quota =
                      Append(@, [value |-> DecrementedQuota(profiles[t][1]), ok |-> ok])]
  /\ Goto(t, "logInsert")
  /\ UNCHANGED << originVars, req, quota0, paramDate, logs, emails, resets, handlerVars, userID, profiles >>

\* The log entry (status from err), its insert, and the return on err != nil.
LogInsert(t) ==
  /\ pc[t] = "logInsert"
  /\ \E ok \in BOOLEAN :
       /\ logs' = IF ok THEN logs \cup {[by |-> t, status |-> LogStatus(err[t])]}
                        ELSE logs
       /\ calls' = [calls EXCEPT ![t].log =
                      Append(@, [status |-> LogStatus(err[t]), ok |-> ok])]
  /\ IF err[t] # "nil"
       THEN Return(t, "email sending error")
       ELSE Goto(t, "histSelect")
  /\ UNCHANGED << originVars, req, quota0, paramDate, rateLimit, emails, resets, handlerVars, userID,
                  profiles, err >>

\* select * from emails where user_id, email_address, template_id match; a
\* failed lookup or an existing row ends the function with nil.
HistSelect(t) ==
  /\ pc[t] = "histSelect"
  /\ \E ok \in BOOLEAN :
       IF ok /\ ExistingEmails(userID[t], Recipient(t), req.TemplateID) = {}
         THEN Goto(t, "histInsert")
         ELSE Return(t, "nil")
  /\ calls' = [calls EXCEPT ![t].histSelect = @ + 1]
  /\ UNCHANGED << originVars, req, quota0, paramDate, storeVars, resets, handlerVars, userID, profiles, err >>

\* Mutant of HistInsert: an upsert that replaces the row of the same triple.
HistInsertUpsert(t) ==
  /\ pc[t] = "histInsert"
  /\ \E ok \in BOOLEAN :
       emails' = IF ok
                   THEN (emails \ ExistingEmails(userID[t], Recipient(t), req.TemplateID))
                          \cup {EmailRow(t, userID[t], Recipient(t), req.TemplateID)}
                   ELSE emails
  /\ calls' = [calls EXCEPT ![t].histInsert = @ + 1]
  /\ Return(t, "nil")
  /\ UNCHANGED << originVars, req, quota0, paramDate, rateLimit, logs, resets, handlerVars, userID, profiles,
                  err >>

\* insert into emails; the function returns nil whatever the insert answers.
HistInsert(t) ==
  /\ pc[t] = "histInsert"
  /\ \E ok \in BOOLEAN :
       emails' = IF ok
                   THEN emails \cup {EmailRow(t, userID[t], Recipient(t), req.TemplateID)}
                   ELSE emails
  /\ calls' = [calls EXCEPT ![t].histInsert = @ + 1]
  /\ Return(t, "nil")
  /\ UNCHANGED << originVars, req, quota0, paramDate, rateLimit, logs, resets, handlerVars, userID, profiles,
                  err >>

\* Mutant of SendErr: the channel is made with capacity 1.
SendErrCapacityOne(t) ==
  /\ pc[t] = "returned"
  /\ ret[t] # "nil"
  /\ Len(errorChan) < 1
  /\ errorChan' = Append(errorChan, SendError(t))
  /\ pc' = [pc EXCEPT ![t] = "deferred"]
  /\ UNCHANGED << originVars, req, quota0, paramDate, storeVars, resets, hpc, loopIdx, wg, chanClosed,
                  closerPc, response, userID, profiles, err, ret, calls >>

\* if err := sendSingleEmail(...); err != nil { errorChan <- ... }: the send
\* needs room in the buffer (capacity len(req.Recipients)).
SendErr(t) ==
  /\ pc[t] = "returned"
  /\ ret[t] # "nil"
  /\ Len(errorChan) < Len(req.Recipients)
  /\ errorChan' = Append(errorChan, SendError(t))
  /\ pc' = [pc EXCEPT ![t] = "deferred"]
  /\ UNCHANGED << originVars, req, quota0, paramDate, storeVars, resets, hpc, loopIdx, wg, chanClosed,
                  closerPc, response, userID, profiles, err, ret, calls >>

\* Mutant of WgDone: wg.Done() is called on the error path only.
WgDoneOnlyAfterError(t) ==
  /\ pc[t] = "deferred"
  /\ wg' = wg - 1
  /\ pc' = [pc EXCEPT ![t] = "done"]
  /\ UNCHANGED << originVars, req, quota0, paramDate, storeVars, resets, hpc, loopIdx, errorChan,
                  chanClosed, closerPc, response, userID, profiles, err, ret, calls >>

\* defer wg.Done(), reached directly when sendSingleEmail returned nil.
WgDone(t) ==
  /\ \/ pc[t] = "deferred"
     \/ pc[t] = "returned" /\ ret[t] = "nil"
  /\ wg' = wg - 1
  /\ pc' = [pc EXCEPT ![t] = "done"]
  /\ UNCHANGED << originVars, req, quota0, paramDate, storeVars, resets, hpc, loopIdx, errorChan,
                  chanClosed, closerPc, response, userID, profiles, err, ret, calls >>

\* req.Parameters is one map shared by the goroutines, written at line 237
\* and read at lines 232 and 277 without synchronisation.  When a write is
\* concurrent with another access the accesses either go through in some
\* order (the steps above) or the runtime's map check ends the process
\* ("fatal error: concurrent map writes" / "concurrent map read and map
\* write"): no goroutine takes another step and no response is written.
MapFault ==
  /\ \E t1, t2 \in Tasks :
       /\ t1 # t2
       /\ pc[t1] = "dateWrite"
       /\ pc[t2] \in {"dateRead", "dateWrite", "execute"}
  /\ pc' = [t \in Tasks |-> "fatal"]
  /\ hpc' = "fatal"
  /\ closerPc' = "fatal"
  /\ UNCHANGED << originVars, req, quota0, paramDate, storeVars, resets, loopIdx, wg, errorChan,
                  chanClosed, response, userID, profiles, err, ret, calls >>

\* ------------------------------------------------ the scheduled reset
\* reset_rate_limit(), run by pg_cron: every rate_limit below 300 becomes 300.
ResetRateLimit ==
  /\ resets < MaxResets
  /\ resets' = resets + 1
  /\ rateLimit' = [u \in Users |-> IF rateLimit[u] < ResetQuota THEN ResetQuota
                                                                 ELSE rateLimit[u]]
  /\ UNCHANGED << originVars, req, quota0, paramDate, logs, emails, handlerVars, taskVars >>

Next ==
  \/ Decode
  \/ Spawn
  \/ StartCloser
  \/ CloserWait
  \/ CloserClose
  \/ Collect
  \/ Respond
  \/ \E t \in Tasks : GetUser(t)
  \/ \E t \in Tasks : GetQuota(t)
  \/ \E t \in Tasks : GetService(t)
  \/ \E t \in Tasks : DateRead(t)
  \/ \E t \in Tasks : DateWrite(t)
  \/ \E t \in Tasks : GetTemplate(t)
  \/ \E t \in Tasks : Execute(t)
  \/ \E t \in Tasks : Smtp(t)
  \/ \E t \in Tasks : UpdateQuota(t)
  \/ \E t \in Tasks : LogInsert(t)
  \/ \E t \in Tasks : HistSelect(t)
  \/ \E t \in Tasks : HistInsert(t)
  \/ \E t \in Tasks : SendErr(t)
  \/ \E t \in Tasks : WgDone(t)
  \/ MapFault

\* One request served while no reset runs.
Spec == Init /\ [][Next]_vars

\* One request served under a scheduler that lets a runnable goroutine
\* (handler, closer, recipient goroutine) run eventually, with every call a
\* goroutine makes returning.
SpecFair == Spec /\ WF_vars(Next)

\* One valid request with MaxRaceRecipients recipients for a user whose quota
\* is RaceQuota: the goroutines' quota reads and writes in every order.
InitQuotaRace ==
  /\ req = [parsed |-> TRUE, UserKey |-> "k1", ServiceID |-> "s1", TemplateID |-> "t1",
            Recipients |-> [i \in 1..MaxRaceRecipients |-> "a"],
            Origin |-> Url(TRUE, "https", <<"p", ".", "a">>)]
  /\ paramDate = "rfc3339"
  /\ rateLimit = [u \in Users |-> IF u = "u1" THEN RaceQuota ELSE ResetQuota]
  /\ quota0 = rateLimit
  /\ logs = {}
  /\ emails = {}
  /\ resets = 0
  /\ hpc = "decode"
  /\ loopIdx = 1
  /\ wg = 0
  /\ errorChan = << >>
  /\ chanClosed = FALSE
  /\ closerPc = "idle"
  /\ response = [status |-> 0, Success |-> FALSE, Errors |-> << >>]
  /\ pc = [t \in Tasks |-> "idle"]
  /\ userID = [t \in Tasks |-> "none"]
  /\ profiles = [t \in Tasks |-> << >>]
  /\ err = [t \in Tasks |-> "nil"]
  /\ ret = [t \in Tasks |-> "none"]
  /\ calls = [t \in Tasks |-> NoCalls]
  /\ rawOrigin = << >>
  /\ corsOrigin = << >>
  /\ opc = "idle"
  /\ entryIdx = 1

SpecQuotaRace == InitQuotaRace /\ [][Next]_vars

\* One request served while the scheduled reset may run at any moment.
NextReset == Next \/ ResetRateLimit

SpecReset == Init /\ [][NextReset]_vars

\* ------------------------------------- the origin check on raw strings
\* Lines 195-230 of sendSingleEmail taken alone, on the header and the
\* cors_origin column as character sequences, with strings.Split,
\* strings.TrimSpace and url.Parse computed as the library computes them on
\* this alphabet (no "#", "?", "@", "[", "%" or control byte occurs).

Letters == {"a", "e", "h", "p", "s", "S"}
Digits == {"8"}

\* strings.ToLower on the alphabet.
ToLower(c) == IF c = "S" THEN "s" ELSE c

\* strings.Index / strings.LastIndex for one character, 0 when absent.
IndexOf(s, c) ==
  IF \E i \in 1..Len(s) : s[i] = c
    THEN CHOOSE i \in 1..Len(s) : s[i] = c /\ \A j \in 1..(i - 1) : s[j] # c
    ELSE 0

LastIndexOf(s, c) ==
  IF \E i \in 1..Len(s) : s[i] = c
    THEN CHOOSE i \in 1..Len(s) : s[i] = c /\ \A j \in (i + 1)..Len(s) : s[j] # c
    ELSE 0

HasPrefix(s, prefix) ==
  /\ Len(prefix) <= Len(s)
  /\ SubSeq(s, 1, Len(prefix)) = prefix

\* strings.Split(s, c): the pieces between the separators, empty ones kept.
RECURSIVE Split(_, _)
Split(s, c) ==
  LET i == IndexOf(s, c)
  IN  IF i = 0 THEN << s >>
      ELSE << SubSeq(s, 1, i - 1) >> \o Split(SubSeq(s, i + 1, Len(s)), c)

\* strings.TrimSpace.
RECURSIVE TrimSpace(_)
TrimSpace(s) ==
  IF s # << >> /\ Head(s) = " " THEN TrimSpace(Tail(s))
  ELSE IF s # << >> /\ s[Len(s)] = " " THEN TrimSpace(SubSeq(s, 1, Len(s) - 1))
  ELSE s

\* net/url getScheme: letters, then digits and "." once past the first
\* character, up to a ":"; a ":" in front is an error, any other stop means
\* there is no scheme.
GetScheme(raw) ==
  LET stops == {i \in 1..Len(raw) :
                  /\ raw[i] \notin Letters
                  /\ ~(raw[i] \in Digits \cup {"."} /\ i > 1)}
      stop  == IF stops = {} THEN 0 ELSE CHOOSE i \in stops : \A j \in stops : i <= j
  IN  IF stop = 0 \/ raw[stop] # ":"
        THEN [ok |-> TRUE, scheme |-> << >>, rest |-> raw]
        ELSE IF stop = 1
          THEN [ok |-> FALSE, scheme |-> << >>, rest |-> << >>]
          ELSE [ok |-> TRUE,
                scheme |-> [i \in 1..(stop - 1) |-> ToLower(raw[i])],
                rest |-> SubSeq(raw, stop + 1, Len(raw))]

\* net/url validOptionalPort: empty, or ":" followed by digits only.
ValidOptionalPort(port) ==
  \/ port = << >>
  \/ /\ Head(port) = ":"
     /\ \A i \in 2..Len(port) : port[i] \in Digits

\* url.Parse, reduced to what the check reads: the error, Scheme and
\* Hostname().  A rootless rest after a scheme is opaque (no host); without
\* a scheme a colon in the first path segment is an error; an authority
\* after "//" is the host, refused for a bad port or a space, and
\* Hostname() drops the port.
UrlParse(raw) ==
  LET g         == GetScheme(raw)
      rest      == g.rest
      slash     == IndexOf(rest, "/")
      segment   == IF slash = 0 THEN rest ELSE SubSeq(rest, 1, slash - 1)
      afterAuth == SubSeq(rest, 3, Len(rest))
      cut       == IndexOf(afterAuth, "/")
      authority == IF cut = 0 THEN afterAuth ELSE SubSeq(afterAuth, 1, cut - 1)
      colon     == LastIndexOf(authority, ":")
      colonPort == IF colon = 0 THEN << >> ELSE SubSeq(authority, colon, Len(authority))
      hostname  == IF colon = 0 THEN authority ELSE SubSeq(authority, 1, colon - 1)
  IN  IF ~g.ok THEN Url(FALSE, << >>, << >>)
      ELSE IF ~HasPrefix(rest, <<"/">>)
        THEN IF g.scheme # << >> THEN Url(TRUE, g.scheme, << >>)
             ELSE IF IndexOf(segment, ":") # 0 THEN Url(FALSE, << >>, << >>)
             ELSE Url(TRUE, << >>, << >>)
      ELSE IF ~HasPrefix(rest, <<"/", "/">>) \/ (g.scheme = << >> /\ HasPrefix(rest, <<"/", "/", "/">>))
        THEN Url(TRUE, g.scheme, << >>)
      ELSE IF ~ValidOptionalPort(colonPort) \/ IndexOf(authority, " ") # 0
        THEN Url(FALSE, << >>, << >>)
      ELSE Url(TRUE, g.scheme, hostname)

\* Pieces the inputs are put together from.
SchemeS == <<"s", ":", "/", "/">>
SchemeH == <<"h", ":", "/", "/">>
HostA == <<"a">>
HostPA == <<"p", ".", "a">>
HostAE == <<"a", ".", "e">>
HostEA == <<"e", "a">>

\* Origin header values: absent, exact host, subdomain, look-alikes
\* (superdomain a.e, undotted ea), other scheme, a port, an upper-case
\* scheme, no scheme, and three url.Parse refuses.
RawOrigins ==
  { << >>,
    SchemeS \o HostA,
    SchemeS \o HostPA,
    SchemeS \o HostAE,
    SchemeS \o HostEA,
    SchemeH \o HostA,
    SchemeH \o HostPA,
    SchemeS \o HostA \o <<":", "8">>,
    <<"S", ":", "/", "/">> \o HostA,
    HostA,
    <<":">> \o HostA,
    SchemeS \o <<"a", " ", "e">>,
    SchemeS \o HostA \o <<":", "a">> }

\* cors_origin column values: NULL or empty, one entry, several entries with
\* blanks, a refused entry before a good one, a trailing comma, only a
\* refused entry, an entry without scheme, blanks only, an entry with a port.
CorsOriginColumns ==
  { << >>,
    SchemeS \o HostA,
    SchemeS \o HostPA,
    SchemeH \o HostA \o <<",", " ">> \o SchemeS \o HostA \o <<" ">>,
    <<":">> \o HostA \o <<",">> \o SchemeS \o HostA,
    SchemeS \o HostA \o <<",">>,
    <<":">> \o HostA,
    HostA,
    <<" ">>,
    SchemeS \o HostA \o <<":", "8">> }

\* allowedOrigins := strings.Split(service.CorsOrigin, ",").
AllowedOrigins == Split(corsOrigin, ",")

\* The cors_origin column as the pipeline model's ServiceRows hold it: each
\* entry trimmed and parsed, no entry for the empty column.
ParsedCors(column) ==
  IF column = << >> THEN << >>
  ELSE [i \in 1..Len(Split(column, ",")) |-> UrlParse(TrimSpace(Split(column, ",")[i]))]

InitOrigin ==
  /\ rawOrigin \in RawOrigins
  /\ corsOrigin \in CorsOriginColumns
  /\ opc = "parse"
  /\ entryIdx = 1
  /\ req = BadRequest
  /\ paramDate = "absent"
  /\ rateLimit = [u \in Users |-> ResetQuota]
  /\ quota0 = rateLimit
  /\ logs = {}
  /\ emails = {}
  /\ resets = 0
  /\ hpc = "done"
  /\ loopIdx = 1
  /\ wg = 0
  /\ errorChan = << >>
  /\ chanClosed = FALSE
  /\ closerPc = "idle"
  /\ response = [status |-> 400, Success |-> FALSE, Errors |-> << >>]
  /\ pc = [t \in Tasks |-> "idle"]
  /\ userID = [t \in Tasks |-> "none"]
  /\ profiles = [t \in Tasks |-> << >>]
  /\ err = [t \in Tasks |-> "nil"]
  /\ ret = [t \in Tasks |-> "none"]
  /\ calls = [t \in Tasks |-> NoCalls]

\* Mutant of OriginParse: an empty cors_origin admits before the header is
\* parsed.
OriginParseAfterEmptyTest ==
  /\ opc = "parse"
  /\ opc' = IF corsOrigin = << >> THEN "admitted"
            ELSE IF ~UrlParse(rawOrigin).ok THEN "invalid origin"
            ELSE "loop"
  /\ UNCHANGED << rawOrigin, corsOrigin, entryIdx, pipelineVars >>

\* parsedOrigin, err := url.Parse(origin) and the test of service.CorsOrigin.
OriginParse ==
  /\ opc = "parse"
  /\ opc' = IF ~UrlParse(rawOrigin).ok THEN "invalid origin"
            ELSE IF corsOrigin = << >> THEN "admitted"
            ELSE "loop"
  /\ UNCHANGED << rawOrigin, corsOrigin, entryIdx, pipelineVars >>

\* Mutant of OriginEntry: the suffix test without the "." in front.
OriginEntryUndottedSuffix ==
  /\ opc = "loop"
  /\ entryIdx <= Len(AllowedOrigins)
  /\ LET parsedOrigin        == UrlParse(rawOrigin)
         parsedAllowedOrigin == UrlParse(TrimSpace(AllowedOrigins[entryIdx]))
     IN  IF /\ parsedAllowedOrigin.ok
            /\ parsedAllowedOrigin.scheme = parsedOrigin.scheme
            /\ \/ parsedOrigin.host = parsedAllowedOrigin.host
               \/ HasSuffix(parsedOrigin.host, parsedAllowedOrigin.host)
           THEN opc' = "admitted" /\ entryIdx' = entryIdx
           ELSE opc' = opc /\ entryIdx' = entryIdx + 1
  /\ UNCHANGED << rawOrigin, corsOrigin, pipelineVars >>

\* One round of the range over allowedOrigins: trim, parse, skip on a parse
\* error or another scheme, break on an equal hostname or a "." + hostname
\* suffix.
OriginEntry ==
  /\ opc = "loop"
  /\ entryIdx <= Len(AllowedOrigins)
  /\ LET parsedOrigin        == UrlParse(rawOrigin)
         parsedAllowedOrigin == UrlParse(TrimSpace(AllowedOrigins[entryIdx]))
     IN  IF /\ parsedAllowedOrigin.ok
            /\ parsedAllowedOrigin.scheme = parsedOrigin.scheme
            /\ \/ parsedOrigin.host = parsedAllowedOrigin.host
               \/ HasSuffix(parsedOrigin.host, <<".">> \o parsedAllowedOrigin.host)
           THEN opc' = "admitted" /\ entryIdx' = entryIdx
           ELSE opc' = opc /\ entryIdx' = entryIdx + 1
  /\ UNCHANGED << rawOrigin, corsOrigin, pipelineVars >>

\* if !originAllowed: the range ended without a break.
OriginDenied ==
  /\ opc = "loop"
  /\ entryIdx > Len(AllowedOrigins)
  /\ opc' = "origin not allowed"
  /\ UNCHANGED << rawOrigin, corsOrigin, entryIdx, pipelineVars >>

NextOrigin ==
  \/ OriginParse
  \/ OriginEntry
  \/ OriginDenied

\* The origin check of one request against one service row.
SpecOrigin == InitOrigin /\ [][NextOrigin]_vars

\* ------------------------------------------------------------ claims
\* sendSingleEmail has returned in goroutine t.
Terminated(t) == pc[t] \in {"returned", "deferred", "done"}

\* The goroutines the handler starts for the request.
Spawned == 1..Len(req.Recipients)

\* smtp.SendMail was called once by t and returned nil / an error.
SmtpSucceeded(t) == calls[t].smtp = << TRUE >>
SmtpFailed(t) == calls[t].smtp = << FALSE >>

\* logs rows inserted by t.
LogRows(t) == {r \in logs : r.by = t}

\* C1: a goroutine that read a quota <= 0 has returned "rate limit exceeded"
\* and has made no SMTP send, no quota write, no log insert and no history
\* lookup or insert.
C1_QuotaBlocksDispatch ==
  \A t \in Tasks :
    (profiles[t] # << >> /\ profiles[t][1] <= 0)
      => /\ Terminated(t)
         /\ ret[t] = "rate limit exceeded"
         /\ calls[t] = NoCalls
         /\ LogRows(t) = {}
         /\ \A r \in emails : r.by # t

C1_Witness ==
  \E t \in Tasks :
    /\ profiles[t] # << >> /\ profiles[t][1] <= 0
    /\ pc[t] = "done"
    /\ ret[t] = "rate limit exceeded"

\* C2: once every goroutine of the request is done (no reset ran, and the
\* store accepted every quota update), the stored quota is the initial quota
\* minus the number of successful SMTP sends.
C2_OneDecrementPerSend ==
  ((\A t \in Tasks : pc[t] \in {"idle", "done"})
     /\ hpc = "done"
     /\ \A t \in Tasks : \A i \in 1..Len(calls[t].quota) : calls[t].quota[i].ok)
    => rateLimit["u1"] =
         quota0["u1"] - Cardinality({t \in Tasks : SmtpSucceeded(t)})

\* C3: every value a goroutine writes to rate_limit is >= 0, whatever the
\* interleaving with the other goroutines and with the scheduled reset.
C3_QuotaWritesNonNegative ==
  /\ \A t \in Tasks : \A i \in 1..Len(calls[t].quota) : calls[t].quota[i].value >= 0
  /\ \A u \in Users : quota0[u] >= 0 => rateLimit[u] >= 0

C3_Witness ==
  \E t \in Tasks :
    /\ resets > 0
    /\ Len(calls[t].quota) = 1
    /\ calls[t].quota[1].ok
    /\ calls[t].quota[1].value = 0
    /\ rateLimit[userID[t]] = 0

\* C4: a goroutine whose SMTP send succeeded makes exactly one log insert and
\* its status is "success".
C4_SuccessfulSendLoggedSuccess ==
  \A t \in Tasks :
    (SmtpSucceeded(t) /\ Terminated(t))
      => /\ Len(calls[t].log) = 1
         /\ calls[t].log[1].status = "success"

\* C5: a goroutine whose SMTP send failed makes exactly one log insert, with
\* status "failed" (one row, unless the store refuses the insert), writes no
\* quota, looks up and inserts no history row, and returns an error.
C5_FailedSendLoggedFailed ==
  \A t \in Tasks :
    (SmtpFailed(t) /\ Terminated(t))
      => /\ Len(calls[t].log) = 1
         /\ calls[t].log[1].status = "failed"
         /\ LogRows(t) = IF calls[t].log[1].ok
                           THEN {[by |-> t, status |-> "failed"]}
                           ELSE {}
         /\ calls[t].quota = << >>
         /\ calls[t].histSelect = 0
         /\ calls[t].histInsert = 0
         /\ \A r \in emails : r.by # t
         /\ ret[t] = "email sending error"

C5_Witness ==
  \E t \in Tasks :
    /\ SmtpFailed(t)
    /\ pc[t] = "done"
    /\ LogRows(t) = {[by |-> t, status |-> "failed"]}

\* C6 as claimed: every goroutine that has returned, whichever step it
\* failed at, has attempted exactly one log insert.
C6_LogOnEveryPath ==
  \A t \in Tasks : Terminated(t) => Len(calls[t].log) = 1

\* C6 as amended: a goroutine that has returned has attempted one log insert
\* if it reached the SMTP send and none if it failed before it; the status
\* of the entry is "failed" exactly when the goroutine returned an error.
C6_LogOncePerSmtpAttempt ==
  \A t \in Tasks :
    Terminated(t)
      => /\ Len(calls[t].smtp) <= 1
         /\ Len(calls[t].log) = Len(calls[t].smtp)
         /\ calls[t].log # << >>
              => (calls[t].log[1].status = "failed" <=> ret[t] # "nil")

C6_Witness ==
  \E t, u \in Tasks :
    /\ pc[t] = "done" /\ Len(calls[t].smtp) = 1 /\ Len(calls[t].log) = 1
    /\ pc[u] = "done" /\ ret[u] = "rate limit exceeded" /\ calls[u].log = << >>

\* C7: the emails table never holds two rows with the same (user_id,
\* email_address, template_id).
C7_NoDuplicateHistory ==
  \A r1, r2 \in emails :
    (r1.user_id = r2.user_id /\ r1.email_address = r2.email_address
       /\ r1.template_id = r2.template_id) => r1 = r2

\* C8: a goroutine whose SMTP send succeeded returns nil, whatever the quota
\* update, the log insert and the history calls answered.
C8_PostSendFailuresIgnored ==
  \A t \in Tasks : (SmtpSucceeded(t) /\ Terminated(t)) => ret[t] = "nil"

\* C9: the response to a parsed request has Success = true exactly when
\* every recipient's sendSingleEmail returned nil.
C9_SuccessIffAllSent ==
  (hpc = "done" /\ req.parsed)
    => (response.Success <=> \A t \in Spawned : ret[t] = "nil")

C9_Witness ==
  /\ hpc = "done" /\ req.parsed
  /\ Len(req.Recipients) = 2
  /\ ret[1] = "nil" /\ ret[2] \notin {"nil", "none"}
  /\ ~response.Success

\* How often e occurs in the sequence.
Occurrences(seq, e) == Cardinality({i \in 1..Len(seq) : seq[i] = e})

\* C10: when the handler responds, every recipient's goroutine has run to
\* its end, and the response holds one error per recipient whose
\* sendSingleEmail returned an error, naming that recipient's address, and
\* none for the others.
C10_OneErrorPerFailedRecipient ==
  (hpc = "done" /\ req.parsed)
    => LET failed == {t \in Spawned : ret[t] # "nil"}
           errorOf(t) == [to |-> req.Recipients[t], error |-> ret[t]]
       IN  /\ \A t \in Spawned : pc[t] = "done"
           /\ Len(response.Errors) = Cardinality(failed)
           /\ \A t \in failed :
                Occurrences(response.Errors, errorOf(t)) =
                  Cardinality({u \in failed : errorOf(u) = errorOf(t)})

C10_Witness ==
  /\ hpc = "done"
  /\ req.Recipients = << "a", "b" >>
  /\ ret[1] = "email sending error"
  /\ ret[2] = "nil"
  /\ response.Errors = << [to |-> "a", error |-> "email sending error"] >>
  /\ \E r \in emails : r.email_address = "b"

\* C11: the response is written, and the channel closed, only when every
\* goroutine the handler started has finished and the channel is drained.
C11_RespondsAfterAllTasks ==
  /\ (req.parsed /\ response.status # 0)
       => /\ \A t \in Spawned : pc[t] = "done"
          /\ wg = 0
          /\ chanClosed
          /\ errorChan = << >>
  /\ chanClosed => \A t \in Spawned : pc[t] = "done"

C11_Witness ==
  /\ req.parsed
  /\ response.status = 200
  /\ Len(req.Recipients) = 2
  /\ Len(response.Errors) = 1
  /\ \E t \in Spawned : ret[t] = "nil"

\* The orchestration holds a service row: it is past the service load.
HoldsService(t) ==
  \/ pc[t] \in {"dateRead", "dateWrite", "getTemplate", "execute", "smtp", "updateQuota",
                "logInsert", "histSelect", "histInsert"}
  \/ /\ Terminated(t)
     /\ ret[t] \notin {"invalid user_key", "failed to fetch user's rate limit",
                       "rate limit exceeded", "invalid service_id"}

\* The orchestration holds a template row: it is past the template load.
HoldsTemplate(t) ==
  \/ pc[t] \in {"execute", "smtp", "updateQuota", "logInsert", "histSelect", "histInsert"}
  \/ /\ Terminated(t)
     /\ ret[t] \in {"template parsing error", "template execution error",
                    "email sending error", "nil"}

\* C12: tenant isolation.  The service and the template an orchestration
\* holds are owned by the user the request's key resolves to; a service or
\* template of another user ends the orchestration with an error (invalid
\* service_id once the quota admitted it) and without an SMTP attempt.
C12_TenantIsolation ==
  \A t \in Tasks :
    /\ HoldsService(t) =>
         /\ req.UserKey \in DOMAIN ProfileByKey
         /\ userID[t] = ProfileByKey[req.UserKey]
         /\ ServiceRows[req.ServiceID].user_id = userID[t]
    /\ HoldsTemplate(t) => TemplateRows[req.TemplateID].user_id = userID[t]
    /\ (userID[t] # "none" /\ ServiceRows[req.ServiceID].user_id # userID[t]) =>
         /\ calls[t].smtp = << >>
         /\ Terminated(t) => ret[t] \in {"failed to fetch user's rate limit",
                                         "rate limit exceeded", "invalid service_id"}
    /\ (userID[t] # "none" /\ TemplateRows[req.TemplateID].user_id # userID[t]) =>
         /\ calls[t].smtp = << >>
         /\ Terminated(t) => ret[t] \notin {"nil", "email sending error",
                                            "template parsing error",
                                            "template execution error"}

C12_Witness ==
  \E t \in Tasks :
    /\ pc[t] = "done"
    /\ userID[t] = "u1"
    /\ ServiceRows[req.ServiceID].user_id = "u1"
    /\ TemplateRows[req.TemplateID].user_id = "u2"
    /\ ret[t] = "invalid template_id"
    /\ calls[t].smtp = << >>

\* C13: a body that does not parse is answered 400 and starts nothing: no
\* goroutine, no data-store call, no SMTP call, no write.
C13_MalformedBodyStartsNothing ==
  ~req.parsed =>
    /\ hpc \in {"decode", "done"}
    /\ hpc = "done" => response.status = 400
    /\ \A t \in Tasks : /\ pc[t] = "idle"
                        /\ userID[t] = "none"
                        /\ profiles[t] = << >>
                        /\ calls[t] = NoCalls
    /\ wg = 0
    /\ closerPc = "idle"
    /\ rateLimit = quota0
    /\ logs = {}
    /\ emails = {}

C13_Witness ==
  /\ ~req.parsed
  /\ Len(req.Recipients) = 2
  /\ hpc = "done"
  /\ response.status = 400

\* C14: a request whose body parses is answered 200 with the {success,
\* errors} payload whatever the recipients' outcomes; no other status is
\* ever written for it.
C14_ParsedRequestAnswered200 ==
  req.parsed =>
    /\ response.status \in {0, 200}
    /\ hpc = "done" =>
         /\ response.status = 200
         /\ response.Success = (response.Errors = << >>)

C14_Witness ==
  /\ req.parsed
  /\ hpc = "done"
  /\ response.status = 200
  /\ ~response.Success
  /\ \E i \in 1..Len(response.Errors) : response.Errors[i].error = "invalid template_id"
  /\ \E i \in 1..Len(response.Errors) : response.Errors[i].error = "email sending error"

\* C17: no retry.  An orchestration makes at most one SMTP attempt, only a
\* spawned one makes any, and a request makes at most one per recipient.
C17_AtMostOneSmtpAttempt ==
  /\ \A t \in Tasks : /\ Len(calls[t].smtp) <= 1
                      /\ t \notin Spawned => calls[t].smtp = << >>
  /\ Cardinality({t \in Tasks : calls[t].smtp # << >>}) <= Len(req.Recipients)

C17_Witness ==
  /\ Len(req.Recipients) = 2
  /\ \A t \in Spawned : pc[t] = "done"
  /\ calls[1].smtp = << FALSE >>
  /\ calls[2].smtp = << TRUE >>

\* C18: frame.  Every step of the pipeline leaves the existing log and
\* history rows as they are (rows are only added, one at a time) and changes
\* no profile other than the quota of the user an orchestration at its quota
\* update resolved.  Services, templates and the profile's keys are never
\* written: they are constants of the model.
C18_OnlyQuotaWritten ==
  [][ /\ logs \subseteq logs'
      /\ Cardinality(logs' \ logs) <= 1
      /\ emails \subseteq emails'
      /\ Cardinality(emails' \ emails) <= 1
      /\ \A u \in Users :
           rateLimit'[u] # rateLimit[u] =>
             \E t \in Tasks : /\ pc[t] = "updateQuota"
                              /\ userID[t] = u
                              /\ logs' = logs
                              /\ emails' = emails ]_vars

C18_Witness ==
  /\ Cardinality(logs) = 2
  /\ Cardinality(emails) = 2
  /\ \E r1, r2 \in emails : r1 # r2 /\ r1.email_address = r2.email_address
  /\ rateLimit["u1"] # quota0["u1"]
  /\ rateLimit["u2"] = quota0["u2"]

\* The check that produces each error of sendSingleEmail.
ErrorStage(e) ==
  CASE e = "invalid user_key"                                            -> "identity"
    [] e \in {"failed to fetch user's rate limit", "rate limit exceeded"} -> "quota"
    [] e = "invalid service_id"                                          -> "service"
    [] e \in {"invalid origin", "origin not allowed"}                    -> "origin"
    [] e = "invalid date format"                                         -> "date"
    [] e = "invalid template_id"                                         -> "template"
    [] e = "template parsing error"                                      -> "compile"
    [] e = "template execution error"                                    -> "execute"
    [] e = "email sending error"                                         -> "smtp"
    [] OTHER                                                             -> "sent"

\* The order the checks are claimed to run in, the date pre-parse before the
\* template load.
CheckOrder ==
  << "identity", "quota", "service", "origin", "date", "template", "compile", "execute",
     "smtp", "sent" >>

Position(stage) == CHOOSE i \in 1..Len(CheckOrder) : CheckOrder[i] = stage

ResolvedUser ==
  IF req.UserKey \in DOMAIN ProfileByKey THEN ProfileByKey[req.UserKey] ELSE "none"

\* What the request and the tables must be like for a check to have passed.
StagePassable(t, stage) ==
  CASE stage = "identity" -> ResolvedUser # "none"
    [] stage = "quota"    -> profiles[t] # << >> /\ profiles[t][1] > 0
    [] stage = "service"  -> ServiceRows[req.ServiceID].user_id = ResolvedUser
    [] stage = "origin"   -> /\ req.Origin.ok
                             /\ OriginAllowed(ServiceRows[req.ServiceID].cors, req.Origin)
    [] stage = "date"     -> paramDate # "badstring"
    [] stage = "template" -> TemplateRows[req.TemplateID].user_id = ResolvedUser
    [] stage = "compile"  -> TemplateRows[req.TemplateID].parses
    [] stage = "execute"  -> TemplateRows[req.TemplateID].usesDate => paramDate = "time"
    [] stage = "smtp"     -> calls[t].smtp = << TRUE >>
    [] OTHER              -> TRUE

\* C19 as stated: with an unparseable date and a template that cannot be
\* loaded, the recipient fails with invalid template_id, not invalid date
\* format.
C19_TemplateErrorBeforeDateError ==
  \A t \in Tasks :
    ( /\ Terminated(t)
      /\ paramDate = "badstring"
      /\ TemplateRows[req.TemplateID].user_id # ResolvedUser
      /\ ret[t] \in {"invalid date format", "invalid template_id"} )
    => ret[t] = "invalid template_id"

\* C19, amended: the checks run in the order identity, quota, service,
\* origin, date pre-parse, template load, compile, execute, SMTP, and the
\* first failing one determines the error: every check before the one that
\* produced the error had passed, and a check decided by the request alone
\* produced its error only when the request fails it.
C19_ChecksInCodeOrder ==
  \A t \in Tasks :
    Terminated(t) =>
      /\ \A i \in 1..(Position(ErrorStage(ret[t])) - 1) : StagePassable(t, CheckOrder[i])
      /\ ret[t] = "rate limit exceeded" => profiles[t][1] <= 0
      /\ ret[t] = "invalid origin" => ~req.Origin.ok
      /\ ret[t] = "origin not allowed" => req.Origin.ok
      /\ ret[t] = "invalid date format" => paramDate = "badstring"
      /\ ret[t] = "template parsing error" => ~TemplateRows[req.TemplateID].parses
      /\ ret[t] = "template execution error" => paramDate # "time"

C19_Witness ==
  \E t \in Tasks :
    /\ pc[t] = "done"
    /\ paramDate = "badstring"
    /\ TemplateRows[req.TemplateID].user_id # ResolvedUser
    /\ ret[t] = "invalid date format"

\* C20: an orchestration whose SMTP send succeeded makes, in this order and
\* once each, the quota write, the log insert and the history lookup, then
\* at most one history insert; the history is touched only after the log
\* insert of a successful send.
C20_SuccessPathEffectsInOrder ==
  \A t \in Tasks :
    /\ Len(calls[t].quota) <= 1
    /\ Len(calls[t].log) <= 1
    /\ calls[t].histSelect <= 1
    /\ calls[t].histInsert <= calls[t].histSelect
    /\ calls[t].quota # << >> => SmtpSucceeded(t)
    /\ (SmtpSucceeded(t) /\ calls[t].log # << >>) => Len(calls[t].quota) = 1
    /\ calls[t].histSelect > 0 => (SmtpSucceeded(t) /\ Len(calls[t].log) = 1)
    /\ (SmtpSucceeded(t) /\ Terminated(t)) =>
         /\ Len(calls[t].quota) = 1
         /\ Len(calls[t].log) = 1
         /\ calls[t].histSelect = 1

\* The origin check has reached its verdict.
OriginDecided == opc \in {"admitted", "origin not allowed", "invalid origin"}

\* The allow-list entries after the comma split and the trim.
TrimmedEntries == {TrimSpace(AllowedOrigins[i]) : i \in 1..Len(AllowedOrigins)}

\* The labels of a hostname, and "a is a dot-separated proper suffix of h"
\* said on labels.
Labels(host) == Split(host, ".")

ProperLabelSuffix(a, h) ==
  /\ Len(Labels(a)) < Len(Labels(h))
  /\ SubSeq(Labels(h), Len(Labels(h)) - Len(Labels(a)) + 1, Len(Labels(h))) = Labels(a)

\* C15: for a non-empty allow-list a well-formed origin is admitted exactly
\* when some entry, split on commas and trimmed, parses, has the origin's
\* scheme, and has a hostname equal to the origin's or a proper suffix of it
\* on a label boundary; otherwise the verdict is origin not allowed.  The
\* verdict is also the one OriginAllowed gives on the parsed entries.
C15_OriginDecisionRule ==
  (OriginDecided /\ corsOrigin # << >> /\ UrlParse(rawOrigin).ok) =>
    /\ opc \in {"admitted", "origin not allowed"}
    /\ (opc = "admitted") <=>
         \E e \in TrimmedEntries :
           /\ UrlParse(e).ok
           /\ UrlParse(e).scheme = UrlParse(rawOrigin).scheme
           /\ \/ UrlParse(e).host = UrlParse(rawOrigin).host
              \/ ProperLabelSuffix(UrlParse(e).host, UrlParse(rawOrigin).host)
    /\ (opc = "admitted") <=> OriginAllowed(ParsedCors(corsOrigin), UrlParse(rawOrigin))

C15_Witness ==
  /\ opc = "admitted"
  /\ rawOrigin = SchemeS \o HostPA
  /\ corsOrigin = SchemeH \o HostA \o <<",", " ">> \o SchemeS \o HostA \o <<" ">>
  /\ entryIdx = 2

\* C16: an empty cors_origin admits every origin url.Parse accepts, the
\* absent header included; an origin url.Parse refuses gets invalid origin
\* whatever the column holds, and nothing else gets it.
C16_EmptyListAdmitsMalformedDenied ==
  OriginDecided =>
    /\ (opc = "invalid origin") <=> ~UrlParse(rawOrigin).ok
    /\ (corsOrigin = << >> /\ UrlParse(rawOrigin).ok) => opc = "admitted"

C16_Witness ==
  /\ opc = "admitted"
  /\ corsOrigin = << >>
  /\ rawOrigin = << >>

\* The errors sendSingleEmail returns before it reaches smtp.SendMail.
PreSmtpErrors ==
  {"invalid user_key", "failed to fetch user's rate limit", "rate limit exceeded",
   "invalid service_id", "invalid origin", "origin not allowed", "invalid date format",
   "invalid template_id", "template parsing error", "template execution error"}

\* C21: an orchestration that ended with an error of a step before the SMTP
\* dispatch has made no SMTP attempt, no quota write and no history lookup
\* or insert; while no orchestration has attempted a send, the quota and the
\* history table are as the request found them.
C21_PreSmtpFailureLeavesStore ==
  /\ \A t \in Tasks :
       (Terminated(t) /\ ret[t] \in PreSmtpErrors) =>
         /\ calls[t].smtp = << >>
         /\ calls[t].quota = << >>
         /\ calls[t].histSelect = 0
         /\ calls[t].histInsert = 0
         /\ \A r \in emails : r.by # t
  /\ (\A t \in Tasks : calls[t].smtp = << >>) => (rateLimit = quota0 /\ emails = {})

C21_Witness ==
  \E t1, t2 \in Tasks :
    /\ pc[t1] = "done"
    /\ ret[t1] = "template parsing error"
    /\ calls[t1] = NoCalls
    /\ pc[t2] = "done"
    /\ ret[t2] = "invalid template_id"
    /\ rateLimit = quota0
    /\ quota0["u1"] > 0

\* C22: under fair scheduling the handler ends with its response written,
\* for any number of recipients and any outcomes: the channel is closed and
\* drained and the response is out.  A run the runtime's map fault ends is
\* not one in which the orchestrations terminate.
C22_HandlerResponds ==
  <>( \/ /\ hpc = "done"
         /\ response.status # 0
         /\ req.parsed => (chanClosed /\ errorChan = << >>)
      \/ hpc = "fatal" )

C22_Witness ==
  /\ hpc = "done"
  /\ req.parsed
  /\ req.Recipients = << >>
  /\ chanClosed
  /\ response = [status |-> 200, Success |-> TRUE, Errors |-> << >>]

\* C23: for a user whose quota is Q > 0 when the request arrives (no reset,
\* no other request), at most Q recipients of the request are sent to.
C23_AdmissionBound ==
  quota0["u1"] > 0 =>
    Cardinality({t \in Tasks : SmtpSucceeded(t)}) <= quota0["u1"]

\* C24: with no reset running, no quota write of any goroutine stores a
\* value greater than the one stored just before it.
C24_QuotaNeverRises ==
  [][\A u \in Users : rateLimit'[u] <= rateLimit[u]]_vars

\* C25: no two goroutines of a request are at an access to the shared
\* req.Parameters at once with one of them at the write of the "date" entry
\* (the other at its read of the entry, its own write, or the template
\* execution that reads the parameters).
C25_NoConcurrentDateAccess ==
  \A t1, t2 \in Tasks :
    (t1 # t2 /\ pc[t1] = "dateWrite") => pc[t2] \notin {"dateRead", "dateWrite", "execute"}

\* The goroutine is past the date step of sendSingleEmail.
PastDateStep(t) ==
  \/ pc[t] \in {"getTemplate", "execute", "smtp", "updateQuota", "logInsert", "histSelect",
                "histInsert"}
  \/ /\ Terminated(t)
     /\ ret[t] \in {"invalid template_id", "template parsing error",
                    "template execution error", "email sending error", "nil"}

\* C26: a goroutine past the date step finds no string under "date": a
\* string that is RFC 3339 has been replaced by the parsed time, by this
\* goroutine or by a sibling, and rendering does not fail on it; with a
\* string that is not RFC 3339 no goroutine gets past the date step, none
\* sends, and one that reached the step ended with invalid date format.
C26_DatePreParsedForEveryRecipient ==
  \A t \in Tasks :
    /\ PastDateStep(t) => paramDate \in {"time", "absent"}
    /\ (Terminated(t) /\ ret[t] = "template execution error") => paramDate = "absent"
    /\ paramDate = "badstring" =>
         /\ pc[t] # "dateWrite"
         /\ calls[t].smtp = << >>
         /\ Terminated(t) =>
              ret[t] \in {"invalid user_key", "failed to fetch user's rate limit",
                          "rate limit exceeded", "invalid service_id", "invalid origin",
                          "origin not allowed", "invalid date format"}

C26_Witness ==
  /\ paramDate = "time"
  /\ TemplateRows[req.TemplateID].usesDate
  /\ Len(req.Recipients) = 2
  /\ \A t \in Spawned : pc[t] = "done" /\ ret[t] = "nil"

\* C27: the values sent on errorChan are at most one per goroutine that
\* returned an error; a goroutine at its send is never blocked and never
\* finds the channel closed; the channel never holds more than one value per
\* recipient; and it is closed by the closer alone, once, after every
\* goroutine has finished.
C27_ErrorChannelDiscipline ==
  /\ Len(errorChan) + Len(response.Errors)
       <= Cardinality({t \in Spawned : ret[t] \notin {"none", "nil"}})
  /\ Len(errorChan) <= Len(req.Recipients)
  /\ \A t \in Tasks :
       (pc[t] = "returned" /\ ret[t] # "nil") => (~chanClosed /\ ENABLED SendErr(t))
  /\ chanClosed <=> closerPc = "done"
  /\ closerPc \in {"close", "done"} => \A t \in Spawned : pc[t] = "done"

C27_Witness ==
  /\ Len(req.Recipients) = 2
  /\ Len(errorChan) = 2
  /\ ~chanClosed
  /\ closerPc = "close"

=============================================================================
